---- MODULE Spec2Model ----
(***************************************************************************)
(* AXI VDMA frame buffer driver (drivers/video/fbdev/vdmafb.c).            *)
(*                                                                         *)
(* The model follows the driver's three entry points, vdmafb_probe         *)
(* (attach), vdmafb_remove (detach) and vdmafb_setcolreg (palette write),  *)
(* and the helper vdmafb_setupfb (configure_and_start).  probe, remove and *)
(* setupfb are stepped statement by statement (pc holds the position), so  *)
(* that the order of the calls into the memory subsystem, the DMA engine   *)
(* and the framebuffer core is visible in the states.  The facilities the  *)
(* driver calls (dmaengine, dma_alloc_coherent, register_framebuffer) are  *)
(* the environment: their state is kept in mem, chanHeld, engine,          *)
(* registered and cmap.                                                    *)
(***************************************************************************)
EXTENDS Integers, Sequences, FiniteSets, TLC

(***************************************************************************)
(* Program constants.                                                      *)
(***************************************************************************)
XRES == 800
YRES == 480
BPP == 32
PAGE_SIZE == 4096
ENOMEM == 12
EINVAL == 22
PALETTE_SIZE == 16
ChanHandle == 1

(***************************************************************************)
(* Bounds of the model.                                                    *)
(***************************************************************************)
\* palette writes explored per attach
MaxPalWrites == 2
\* consecutive vdmafb_setupfb calls explored by the SpecSetup harness
MaxCalls == 3

(***************************************************************************)
(* Inputs drawn by the environment.                                        *)
(***************************************************************************)
\* regions dma_alloc_coherent may return: a CPU (logical) address and the bus
\* (physical) address of the same storage, page aligned, never 0
Regions == {[virt |-> 8192, phys |-> 1048576], [virt |-> 16384, phys |-> 4194304]}
\* ERR_PTR values the channel facility may return, as PTR_ERR reads them (-ENODEV)
ChanErrs == {-19}
\* errors register_framebuffer may return
RegErrs == {-EINVAL, -ENOMEM}
\* arguments of vdmafb_setcolreg (u_int)
Regnos == {0, 5, 15, 16, 2147483647}
Reds == {0, 65535}
Greens == {0, 4660}
Blues == {0, 33023}
Transps == {0, 65535}

(***************************************************************************)
(* u32 values are sets of bit positions 0..31, so that shifts and ORs are  *)
(* computed bit by bit as the C operators do, with the 32-bit width kept.  *)
(***************************************************************************)
Pow2(n) == 2 ^ n

\* the bits of a non-negative int below 2^31
Bits(n) == {i \in 0..30 : (n \div Pow2(i)) % 2 = 1}

\* a >> k on u32
Shr(a, k) == {i - k : i \in {j \in a : j >= k}}

\* a << k on u32: bits shifted past bit 31 are lost
Shl(a, k) == {i + k : i \in a} \cap (0..31)

\* a | b
BitOr(a, b) == a \cup b

\* the number held in bits lo..hi of a (hi - lo < 31)
RECURSIVE FieldFrom(_, _, _)
FieldFrom(a, lo, hi) ==
    IF hi < lo THEN 0
    ELSE (IF hi \in a THEN Pow2(hi - lo) ELSE 0) + FieldFrom(a, lo, hi - 1)

\* PAGE_ALIGN(x)
PAGE_ALIGN(x) == ((x + PAGE_SIZE - 1) \div PAGE_SIZE) * PAGE_SIZE

\* IS_ERR_OR_NULL(p) / PTR_ERR(p): a pointer is NULL (0), an errno ERR_PTR
\* (negative) or a valid handle (positive); PTR_ERR is the cast to long
IS_ERR_OR_NULL(p) == p <= 0
PTR_ERR(p) == p

VARIABLES
    pc,             \* position of the control path
    retpc,          \* where vdmafb_setupfb returns to
    ret,            \* vdmafb_probe's local ret
    fbsize,         \* vdmafb_probe's local fbsize
    probeRet,       \* <<v>>: value the last vdmafb_probe returned; <<>> none yet
    removeRet,      \* <<v>>: value vdmafb_remove returned since that probe
    setupRet,       \* <<v>>: value the last vdmafb_setupfb returned
    var,            \* fbdev->info.var
    fix,            \* fbdev->info.fix
    fb_phys,        \* fbdev->fb_phys
    fb_virt,        \* fbdev->fb_virt (0 is NULL)
    dma,            \* fbdev->dma
    dma_template,   \* *fbdev->dma_template
    pseudo_palette, \* fbdev->pseudo_palette[16]
    desc,           \* vdmafb_setupfb's local desc: <<d>>, or <<>> for NULL
    mem,            \* memory subsystem: the coherent regions allocated
    zeroed,         \* bytes of the scanout buffer zero-filled since its allocation
    chanHeld,       \* channel facility: the named channel is owned by this driver
    engine,         \* DMA engine: park mode, descriptors pending and active
    registered,     \* framebuffer core: info is registered
    cmap,           \* framebuffer core: info.cmap is allocated
    log,            \* calls made into the facilities since the current attach began
    firstFail,      \* first attach step that failed in the current attach, and its error
    calls,          \* vdmafb_setupfb calls in the current attach
    palWrites,      \* vdmafb_setcolreg calls in the current attach
    lastPal         \* <<r>>: arguments, result and prior palette of the last setcolreg

vars == <<pc, retpc, ret, fbsize, probeRet, removeRet, setupRet, var, fix, fb_phys,
          fb_virt, dma, dma_template, pseudo_palette, desc, mem, zeroed, chanHeld, engine,
          registered, cmap, log, firstFail, calls, palWrites, lastPal>>

\* the fields of struct vdmafb_dev that devm_kzalloc leaves zeroed
ZeroVar == [xres |-> 0, yres |-> 0, bits_per_pixel |-> 0,
            red |-> [offset |-> 0, length |-> 0],
            green |-> [offset |-> 0, length |-> 0],
            blue |-> [offset |-> 0, length |-> 0],
            transp |-> [offset |-> 0, length |-> 0]]
ZeroFix == [line_length |-> 0, smem_len |-> 0, smem_start |-> 0]
ZeroTemplate == [dir |-> "none", src_start |-> 0, frame_size |-> 0, numf |-> 0,
                 src_sgl |-> 0, src_inc |-> 0, dst_inc |-> 0, dst_sgl |-> 0,
                 sgl_size |-> 0, sgl_icg |-> 0]
ZeroPalette == [i \in 0..(PALETTE_SIZE - 1) |-> {}]

\* no attach step has failed; the first failure is the one kept
NoFail == [step |-> "none", err |-> 0]
FirstOf(f, step, err) == IF f.step = "none" THEN [step |-> step, err |-> err] ELSE f

\* the engine with nothing queued and no configuration applied
EngineReset == [park |-> 0, pending |-> {}, active |-> {}]

Init ==
    /\ pc = "idle"
    /\ retpc = "none"
    /\ ret = 0
    /\ fbsize = 0
    /\ probeRet = <<>>
    /\ removeRet = <<>>
    /\ setupRet = <<>>
    /\ var = ZeroVar
    /\ fix = ZeroFix
    /\ fb_phys = 0
    /\ fb_virt = 0
    /\ dma = 0
    /\ dma_template = ZeroTemplate
    /\ pseudo_palette = ZeroPalette
    /\ desc = <<>>
    /\ mem = {}
    /\ zeroed = 0
    /\ chanHeld = FALSE
    /\ engine = EngineReset
    /\ registered = FALSE
    /\ cmap = FALSE
    /\ log = <<>>
    /\ firstFail = NoFail
    /\ calls = 0
    /\ palWrites = 0
    /\ lastPal = <<>>

(***************************************************************************)
(* The facilities the driver calls.  Their code is outside this file; they *)
(* are modelled as the specification describes them: terminate empties the *)
(* channel, submit queues a descriptor, issue-pending starts what is       *)
(* queued, release only gives up ownership of the channel (it is not a     *)
(* stop), free-coherent gives a region back.                               *)
(***************************************************************************)
\* dmaengine_terminate_all
TerminateAll(e) == [e EXCEPT !.pending = {}, !.active = {}]

\* xilinx_vdma_channel_set_config with config.park
SetConfig(e, park) == [e EXCEPT !.park = park]

\* dmaengine_submit
Submit(e, d) == [e EXCEPT !.pending = @ \cup {d}]

\* dma_async_issue_pending
IssuePending(e) == [e EXCEPT !.active = @ \cup e.pending, !.pending = {}]

\* dma_release_channel: ownership of a valid handle is given up; the engine is
\* left as it is
ReleaseChannel(held, chan) == IF chan = ChanHandle THEN FALSE ELSE held

\* a coherent region as the memory subsystem knows it
Region(size, virt, phys) == [virt |-> virt, phys |-> phys, size |-> size]

\* dma_free_coherent: the region leaves the allocated set (a region that is not
\* allocated, a second free, leaves the set as it is)
FreeCoherent(m, size, virt, phys) == m \ {Region(size, virt, phys)}

\* one call into a facility, as the log records it
Call(op, arg) == <<op, arg>>

(***************************************************************************)
(* vdmafb_init_var, vdmafb_init_fix                                        *)
(***************************************************************************)
InitVar ==
    [xres |-> XRES, yres |-> YRES, bits_per_pixel |-> BPP,
     red |-> [offset |-> 16, length |-> 8],
     green |-> [offset |-> 8, length |-> 8],
     blue |-> [offset |-> 0, length |-> 8],
     transp |-> [offset |-> 24, length |-> 8]]

InitFix(v) ==
    [line_length |-> v.xres * (v.bits_per_pixel \div 8),
     smem_len |-> (v.xres * (v.bits_per_pixel \div 8)) * v.yres,
     smem_start |-> 0]

(***************************************************************************)
(* vdmafb_probe                                                            *)
(***************************************************************************)
\* the driver core calls probe on an unbound device; devm_kzalloc of fbdev
\* (zeroed) succeeds or probe returns -ENOMEM
probe_alloc_fbdev ==
    /\ pc = "idle"
    /\ ret' = 0
    /\ fbsize' = 0
    /\ removeRet' = <<>>
    /\ setupRet' = <<>>
    /\ var' = ZeroVar
    /\ fix' = ZeroFix
    /\ fb_phys' = 0
    /\ fb_virt' = 0
    /\ dma' = 0
    /\ dma_template' = ZeroTemplate
    /\ pseudo_palette' = ZeroPalette
    /\ desc' = <<>>
    /\ zeroed' = 0
    /\ cmap' = FALSE
    /\ log' = <<>>
    /\ calls' = 0
    /\ palWrites' = 0
    /\ lastPal' = <<>>
    /\ retpc' = "none"
    /\ \/ /\ pc' = "p_template"
          /\ probeRet' = <<>>
          /\ firstFail' = NoFail
       \/ /\ pc' = "idle"
          /\ probeRet' = <<-ENOMEM>>
          /\ firstFail' = [step |-> "kzalloc", err |-> -ENOMEM]
    /\ UNCHANGED <<mem, chanHeld, engine, registered>>

\* devm_kzalloc of the descriptor template
probe_alloc_template ==
    /\ pc = "p_template"
    /\ \/ /\ pc' = "p_init"
          /\ UNCHANGED <<probeRet, firstFail>>
       \/ /\ pc' = "idle"
          /\ probeRet' = <<-ENOMEM>>
          /\ firstFail' = [step |-> "kzalloc", err |-> -ENOMEM]
    /\ UNCHANGED <<retpc, ret, fbsize, removeRet, setupRet, var, fix, fb_phys, fb_virt,
                   dma, dma_template, pseudo_palette, desc, mem, zeroed, chanHeld,
                   engine, registered, cmap, log, calls, palWrites, lastPal>>

\* vdmafb_init_var(fbdev, pdev); vdmafb_init_fix(fbdev)
probe_init ==
    /\ pc = "p_init"
    /\ var' = InitVar
    /\ fix' = InitFix(InitVar)
    /\ pc' = "p_alloc_fb"
    /\ UNCHANGED <<retpc, ret, fbsize, probeRet, removeRet, setupRet, fb_phys, fb_virt,
                   dma, dma_template, pseudo_palette, desc, mem, zeroed, chanHeld,
                   engine, registered, cmap, log, firstFail, calls, palWrites, lastPal>>

\* fbsize = smem_len; dma_alloc_coherent(PAGE_ALIGN(fbsize)): a free region, or
\* NULL and probe returns -ENOMEM
probe_alloc_fb ==
    /\ pc = "p_alloc_fb"
    /\ fbsize' = fix.smem_len
    /\ \/ \E r \in Regions :
             /\ \A m \in mem : m.phys # r.phys
             /\ fb_virt' = r.virt
             /\ fb_phys' = r.phys
             /\ mem' = mem \cup {Region(PAGE_ALIGN(fix.smem_len), r.virt, r.phys)}
             /\ fix' = [fix EXCEPT !.smem_start = r.phys]
             /\ zeroed' = 0
             /\ log' = Append(log, Call("alloc", Region(PAGE_ALIGN(fix.smem_len), r.virt, r.phys)))
             /\ pc' = "p_clear"
             /\ UNCHANGED <<probeRet, firstFail>>
       \/ /\ fb_virt' = 0
          /\ pc' = "idle"
          /\ probeRet' = <<-ENOMEM>>
          /\ firstFail' = [step |-> "buf", err |-> -ENOMEM]
          /\ UNCHANGED <<fb_phys, mem, fix, zeroed, log>>
    /\ UNCHANGED <<retpc, ret, removeRet, setupRet, var, dma, dma_template,
                   pseudo_palette, desc, chanHeld, engine, registered, cmap, calls,
                   palWrites, lastPal>>

\* probe_clear with the length of one line instead of fbsize
probe_clear_one_line ==
    /\ pc = "p_clear"
    /\ zeroed' = fix.line_length
    /\ log' = Append(log, Call("zero", fix.line_length))
    /\ pc' = "p_request"
    /\ UNCHANGED <<retpc, ret, fbsize, probeRet, removeRet, setupRet, var, fix, fb_phys,
                   fb_virt, dma, dma_template, pseudo_palette, desc, mem, chanHeld,
                   engine, registered, cmap, firstFail, calls, palWrites, lastPal>>

\* memset_io(fbdev->fb_virt, 0, fbsize)
probe_clear ==
    /\ pc = "p_clear"
    /\ zeroed' = fbsize
    /\ log' = Append(log, Call("zero", fbsize))
    /\ pc' = "p_request"
    /\ UNCHANGED <<retpc, ret, fbsize, probeRet, removeRet, setupRet, var, fix, fb_phys,
                   fb_virt, dma, dma_template, pseudo_palette, desc, mem, chanHeld,
                   engine, registered, cmap, firstFail, calls, palWrites, lastPal>>

\* fbdev->dma = dma_request_slave_channel(): the channel, NULL or an ERR_PTR;
\* IS_ERR_OR_NULL: ret = PTR_ERR(fbdev->dma); goto err_dma_free
probe_request ==
    /\ pc = "p_request"
    /\ \/ /\ ~chanHeld
          /\ dma' = ChanHandle
          /\ chanHeld' = TRUE
       \/ /\ dma' = 0
          /\ UNCHANGED chanHeld
       \/ /\ dma' \in ChanErrs
          /\ UNCHANGED chanHeld
    /\ log' = Append(log, Call("request", dma'))
    /\ IF IS_ERR_OR_NULL(dma')
       THEN /\ ret' = PTR_ERR(dma')
            /\ firstFail' = [step |-> "chan", err |-> PTR_ERR(dma')]
            /\ pc' = "p_err_dma_free"
       ELSE /\ pc' = "p_setupfb"
            /\ UNCHANGED <<ret, firstFail>>
    /\ UNCHANGED <<retpc, fbsize, probeRet, removeRet, setupRet, var, fix, fb_phys,
                   fb_virt, dma_template, pseudo_palette, desc, mem, zeroed, engine,
                   registered, cmap, calls, palWrites, lastPal>>

\* vdmafb_setupfb(fbdev); its result is not read
probe_setupfb ==
    /\ pc = "p_setupfb"
    /\ pc' = "s_terminate"
    /\ retpc' = "p_cmap"
    /\ calls' = calls + 1
    /\ UNCHANGED <<ret, fbsize, probeRet, removeRet, setupRet, var, fix, fb_phys,
                   fb_virt, dma, dma_template, pseudo_palette, desc, mem, zeroed,
                   chanHeld, engine, registered, cmap, log, firstFail, palWrites,
                   lastPal>>

\* ret = fb_alloc_cmap(); a failure is logged and probe goes on
probe_alloc_cmap ==
    /\ pc = "p_cmap"
    /\ \/ /\ ret' = 0
          /\ cmap' = TRUE
       \/ /\ ret' = -ENOMEM
          /\ cmap' = FALSE
    /\ log' = Append(log, Call("cmap_alloc", ret'))
    /\ pc' = "p_register"
    /\ UNCHANGED <<retpc, fbsize, probeRet, removeRet, setupRet, var, fix, fb_phys,
                   fb_virt, dma, dma_template, pseudo_palette, desc, mem, zeroed,
                   chanHeld, engine, registered, firstFail, calls, palWrites, lastPal>>

\* ret = register_framebuffer(); 0: return 0; else goto err_channel_free
probe_register ==
    /\ pc = "p_register"
    /\ \/ /\ ret' = 0
          /\ registered' = TRUE
          /\ pc' = "bound"
          /\ probeRet' = <<0>>
          /\ UNCHANGED firstFail
       \/ /\ ret' \in RegErrs
          /\ pc' = "p_err_channel_free"
          /\ firstFail' = FirstOf(firstFail, "reg", ret')
          /\ UNCHANGED <<registered, probeRet>>
    /\ log' = Append(log, Call("register", ret'))
    /\ UNCHANGED <<retpc, fbsize, removeRet, setupRet, var, fix, fb_phys, fb_virt, dma,
                   dma_template, pseudo_palette, desc, mem, zeroed, chanHeld, engine,
                   cmap, calls, palWrites, lastPal>>

\* err_channel_free: dma_release_channel(fbdev->dma)
probe_err_channel_free ==
    /\ pc = "p_err_channel_free"
    /\ chanHeld' = ReleaseChannel(chanHeld, dma)
    /\ log' = Append(log, Call("release", dma))
    /\ pc' = "p_err_dma_free"
    /\ UNCHANGED <<retpc, ret, fbsize, probeRet, removeRet, setupRet, var, fix, fb_phys,
                   fb_virt, dma, dma_template, pseudo_palette, desc, mem, zeroed, engine,
                   registered, cmap, firstFail, calls, palWrites, lastPal>>

\* err_dma_free: dma_free_coherent(PAGE_ALIGN(fbsize), fb_virt, fb_phys);
\* return ret.  The driver core binds the device when probe returned 0.
probe_err_dma_free ==
    /\ pc = "p_err_dma_free"
    /\ mem' = FreeCoherent(mem, PAGE_ALIGN(fbsize), fb_virt, fb_phys)
    /\ log' = Append(log, Call("free", Region(PAGE_ALIGN(fbsize), fb_virt, fb_phys)))
    /\ probeRet' = <<ret>>
    /\ pc' = IF ret = 0 THEN "bound" ELSE "idle"
    /\ UNCHANGED <<retpc, ret, fbsize, removeRet, setupRet, var, fix, fb_phys, fb_virt,
                   dma, dma_template, pseudo_palette, desc, zeroed, chanHeld, engine,
                   registered, cmap, firstFail, calls, palWrites, lastPal>>

(***************************************************************************)
(* vdmafb_setupfb                                                          *)
(***************************************************************************)
\* BuildTemplate with width and height exchanged
BuildTemplate_swapped(v, phys) ==
    [dir |-> "DMA_MEM_TO_DEV", src_start |-> phys, frame_size |-> 1,
     numf |-> v.xres, src_sgl |-> 1, src_inc |-> 1, dst_inc |-> 0, dst_sgl |-> 0,
     sgl_size |-> v.yres * 4, sgl_icg |-> 0]

\* the template fields as lines 86-100 write them; hsize = var->xres * 4
BuildTemplate(v, phys) ==
    [dir |-> "DMA_MEM_TO_DEV", src_start |-> phys, frame_size |-> 1,
     numf |-> v.yres, src_sgl |-> 1, src_inc |-> 1, dst_inc |-> 0, dst_sgl |-> 0,
     sgl_size |-> v.xres * 4, sgl_icg |-> 0]

\* setupfb_terminate without the call of dmaengine_terminate_all
setupfb_terminate_skipped ==
    /\ pc = "s_terminate"
    /\ pc' = "s_config"
    /\ UNCHANGED <<retpc, ret, fbsize, probeRet, removeRet, setupRet, var, fix, fb_phys,
                   fb_virt, dma, dma_template, pseudo_palette, desc, mem, zeroed,
                   chanHeld, engine, registered, cmap, log, firstFail, calls, palWrites,
                   lastPal>>

\* dmaengine_terminate_all(fbdev->dma)
setupfb_terminate ==
    /\ pc = "s_terminate"
    /\ engine' = TerminateAll(engine)
    /\ log' = Append(log, Call("terminate", dma))
    /\ pc' = "s_config"
    /\ UNCHANGED <<retpc, ret, fbsize, probeRet, removeRet, setupRet, var, fix, fb_phys,
                   fb_virt, dma, dma_template, pseudo_palette, desc, mem, zeroed,
                   chanHeld, registered, cmap, firstFail, calls, palWrites, lastPal>>

\* vdma_config.park = 1; xilinx_vdma_channel_set_config()
setupfb_config ==
    /\ pc = "s_config"
    /\ engine' = SetConfig(engine, 1)
    /\ log' = Append(log, Call("config", 1))
    /\ pc' = "s_template"
    /\ UNCHANGED <<retpc, ret, fbsize, probeRet, removeRet, setupRet, var, fix, fb_phys,
                   fb_virt, dma, dma_template, pseudo_palette, desc, mem, zeroed,
                   chanHeld, registered, cmap, firstFail, calls, palWrites, lastPal>>

\* the writes to *dma_template
setupfb_template ==
    /\ pc = "s_template"
    /\ dma_template' = BuildTemplate(var, fb_phys)
    /\ log' = Append(log, Call("template", calls))
    /\ pc' = "s_prep"
    /\ UNCHANGED <<retpc, ret, fbsize, probeRet, removeRet, setupRet, var, fix, fb_phys,
                   fb_virt, dma, pseudo_palette, desc, mem, zeroed, chanHeld, engine,
                   registered, cmap, firstFail, calls, palWrites, lastPal>>

\* setupfb_prep returning 0 when the descriptor is NULL
setupfb_prep_returns_ok ==
    /\ pc = "s_prep"
    /\ \/ /\ desc' = <<[id |-> calls, template |-> dma_template]>>
          /\ pc' = "s_submit"
          /\ UNCHANGED <<setupRet, firstFail>>
       \/ /\ desc' = <<>>
          /\ setupRet' = <<0>>
          /\ UNCHANGED firstFail
          /\ pc' = retpc
    /\ log' = Append(log, Call("prep", Len(desc')))
    /\ UNCHANGED <<retpc, ret, fbsize, probeRet, removeRet, var, fix, fb_phys, fb_virt,
                   dma, dma_template, pseudo_palette, mem, zeroed, chanHeld, engine,
                   registered, cmap, calls, palWrites, lastPal>>

\* desc = dmaengine_prep_interleaved_dma(): a descriptor made from the template,
\* or NULL and setupfb returns -ENOMEM
setupfb_prep ==
    /\ pc = "s_prep"
    /\ \/ /\ desc' = <<[id |-> calls, template |-> dma_template]>>
          /\ pc' = "s_submit"
          /\ UNCHANGED <<setupRet, firstFail>>
       \/ /\ desc' = <<>>
          /\ setupRet' = <<-ENOMEM>>
          /\ firstFail' = FirstOf(firstFail, "setup", -ENOMEM)
          /\ pc' = retpc
    /\ log' = Append(log, Call("prep", Len(desc')))
    /\ UNCHANGED <<retpc, ret, fbsize, probeRet, removeRet, var, fix, fb_phys, fb_virt,
                   dma, dma_template, pseudo_palette, mem, zeroed, chanHeld, engine,
                   registered, cmap, calls, palWrites, lastPal>>

\* dmaengine_submit(desc)
setupfb_submit ==
    /\ pc = "s_submit"
    /\ engine' = Submit(engine, desc[1])
    /\ log' = Append(log, Call("submit", desc[1].id))
    /\ pc' = "s_issue"
    /\ UNCHANGED <<retpc, ret, fbsize, probeRet, removeRet, setupRet, var, fix, fb_phys,
                   fb_virt, dma, dma_template, pseudo_palette, desc, mem, zeroed,
                   chanHeld, registered, cmap, firstFail, calls, palWrites, lastPal>>

\* dma_async_issue_pending(fbdev->dma); return 0
setupfb_issue ==
    /\ pc = "s_issue"
    /\ engine' = IssuePending(engine)
    /\ log' = Append(log, Call("issue", dma))
    /\ setupRet' = <<0>>
    /\ pc' = retpc
    /\ UNCHANGED <<retpc, ret, fbsize, probeRet, removeRet, var, fix, fb_phys, fb_virt,
                   dma, dma_template, pseudo_palette, desc, mem, zeroed, chanHeld,
                   registered, cmap, firstFail, calls, palWrites, lastPal>>

(***************************************************************************)
(* vdmafb_remove: the driver core calls it on a bound device only.         *)
(***************************************************************************)
\* unregister_framebuffer(&fbdev->info)
remove_unregister ==
    /\ pc = "bound"
    /\ log' = Append(log, Call("unregister", registered))
    /\ registered' = FALSE
    /\ pc' = "r_release"
    /\ UNCHANGED <<retpc, ret, fbsize, probeRet, removeRet, setupRet, var, fix, fb_phys,
                   fb_virt, dma, dma_template, pseudo_palette, desc, mem, zeroed,
                   chanHeld, engine, cmap, firstFail, calls, palWrites, lastPal>>

\* dma_release_channel(fbdev->dma).  With a NULL handle the call dereferences
\* NULL: the control path dies there (oops) or goes on.
remove_release ==
    /\ pc = "r_release"
    /\ chanHeld' = ReleaseChannel(chanHeld, dma)
    /\ log' = Append(log, Call("release", dma))
    /\ \/ pc' = "r_free"
       \/ /\ dma = 0
          /\ pc' = "oops"
    /\ UNCHANGED <<retpc, ret, fbsize, probeRet, removeRet, setupRet, var, fix, fb_phys,
                   fb_virt, dma, dma_template, pseudo_palette, desc, mem, zeroed, engine,
                   registered, cmap, firstFail, calls, palWrites, lastPal>>

\* remove_free with the address arguments in the other order
remove_free_swapped ==
    /\ pc = "r_free"
    /\ mem' = FreeCoherent(mem, PAGE_ALIGN(fix.smem_len), fb_phys, fb_virt)
    /\ log' = Append(log, Call("free", Region(PAGE_ALIGN(fix.smem_len), fb_phys, fb_virt)))
    /\ pc' = "r_cmap"
    /\ UNCHANGED <<retpc, ret, fbsize, probeRet, removeRet, setupRet, var, fix, fb_phys,
                   fb_virt, dma, dma_template, pseudo_palette, desc, zeroed, chanHeld,
                   engine, registered, cmap, firstFail, calls, palWrites, lastPal>>

\* dma_free_coherent(PAGE_ALIGN(smem_len), fb_virt, fb_phys)
remove_free ==
    /\ pc = "r_free"
    /\ mem' = FreeCoherent(mem, PAGE_ALIGN(fix.smem_len), fb_virt, fb_phys)
    /\ log' = Append(log, Call("free", Region(PAGE_ALIGN(fix.smem_len), fb_virt, fb_phys)))
    /\ pc' = "r_cmap"
    /\ UNCHANGED <<retpc, ret, fbsize, probeRet, removeRet, setupRet, var, fix, fb_phys,
                   fb_virt, dma, dma_template, pseudo_palette, desc, zeroed, chanHeld,
                   engine, registered, cmap, firstFail, calls, palWrites, lastPal>>

\* fb_dealloc_cmap(&fbdev->info.cmap); return 0
remove_dealloc_cmap ==
    /\ pc = "r_cmap"
    /\ log' = Append(log, Call("cmap_free", cmap))
    /\ cmap' = FALSE
    /\ removeRet' = <<0>>
    /\ pc' = "idle"
    /\ UNCHANGED <<retpc, ret, fbsize, probeRet, setupRet, var, fix, fb_phys, fb_virt,
                   dma, dma_template, pseudo_palette, desc, mem, zeroed, chanHeld, engine,
                   registered, firstFail, calls, palWrites, lastPal>>

(***************************************************************************)
(* vdmafb_setcolreg                                                        *)
(***************************************************************************)
\* SetColreg with the range check regno > 16
SetColreg_off_by_one(regno, red, green, blue, transp, v, pal) ==
    LET cr == Shr(Bits(red), 16 - v.red.length)
        cg == Shr(Bits(green), 16 - v.green.length)
        cb == Shr(Bits(blue), 16 - v.blue.length)
        rgb == BitOr(BitOr(Shl(cr, v.red.offset), Shl(cg, v.green.offset)),
                     Shl(cb, v.blue.offset))
        mask == Shl(Bits(Pow2(v.transp.length) - 1), v.transp.offset)
        value == IF v.transp.length > 0 THEN BitOr(rgb, mask) ELSE rgb
    IN  IF regno > 16
        THEN [ret |-> -EINVAL, pal |-> pal]
        ELSE [ret |-> 0, pal |-> [i \in DOMAIN pal |-> IF i = regno THEN value ELSE pal[i]]]

\* SetColreg packing the caller's transparency like the other three channels
SetColreg_alpha(regno, red, green, blue, transp, v, pal) ==
    LET cr == Shr(Bits(red), 16 - v.red.length)
        cg == Shr(Bits(green), 16 - v.green.length)
        cb == Shr(Bits(blue), 16 - v.blue.length)
        ct == Shr(Bits(transp), 16 - v.transp.length)
        rgb == BitOr(BitOr(Shl(cr, v.red.offset), Shl(cg, v.green.offset)),
                     Shl(cb, v.blue.offset))
        value == BitOr(rgb, Shl(ct, v.transp.offset))
    IN  IF regno >= 16
        THEN [ret |-> -EINVAL, pal |-> pal]
        ELSE [ret |-> 0, pal |-> [pal EXCEPT ![regno] = value]]

\* SetColreg storing with pal[regno] ^= value
SetColreg_xor(regno, red, green, blue, transp, v, pal) ==
    LET cr == Shr(Bits(red), 16 - v.red.length)
        cg == Shr(Bits(green), 16 - v.green.length)
        cb == Shr(Bits(blue), 16 - v.blue.length)
        rgb == BitOr(BitOr(Shl(cr, v.red.offset), Shl(cg, v.green.offset)),
                     Shl(cb, v.blue.offset))
        mask == Shl(Bits(Pow2(v.transp.length) - 1), v.transp.offset)
        value == IF v.transp.length > 0 THEN BitOr(rgb, mask) ELSE rgb
    IN  IF regno >= 16
        THEN [ret |-> -EINVAL, pal |-> pal]
        ELSE [ret |-> 0,
              pal |-> [pal EXCEPT ![regno] = (@ \ value) \cup (value \ @)]]

\* SetColreg shifting each intensity one bit less, to a 9-bit value
SetColreg_shift7(regno, red, green, blue, transp, v, pal) ==
    LET cr == Shr(Bits(red), 16 - v.red.length - 1)
        cg == Shr(Bits(green), 16 - v.green.length - 1)
        cb == Shr(Bits(blue), 16 - v.blue.length - 1)
        rgb == BitOr(BitOr(Shl(cr, v.red.offset), Shl(cg, v.green.offset)),
                     Shl(cb, v.blue.offset))
        mask == Shl(Bits(Pow2(v.transp.length) - 1), v.transp.offset)
        value == IF v.transp.length > 0 THEN BitOr(rgb, mask) ELSE rgb
    IN  IF regno >= 16
        THEN [ret |-> -EINVAL, pal |-> pal]
        ELSE [ret |-> 0, pal |-> [pal EXCEPT ![regno] = value]]

\* SetColreg wrapping the index into the array instead of rejecting it
SetColreg_wraps(regno, red, green, blue, transp, v, pal) ==
    LET cr == Shr(Bits(red), 16 - v.red.length)
        cg == Shr(Bits(green), 16 - v.green.length)
        cb == Shr(Bits(blue), 16 - v.blue.length)
        rgb == BitOr(BitOr(Shl(cr, v.red.offset), Shl(cg, v.green.offset)),
                     Shl(cb, v.blue.offset))
        mask == Shl(Bits(Pow2(v.transp.length) - 1), v.transp.offset)
        value == IF v.transp.length > 0 THEN BitOr(rgb, mask) ELSE rgb
    IN  [ret |-> IF regno >= 16 THEN -EINVAL ELSE 0,
         pal |-> [pal EXCEPT ![regno % 16] = value]]

\* the result and the palette after vdmafb_setcolreg(regno, red, green, blue, transp)
SetColreg(regno, red, green, blue, transp, v, pal) ==
    LET cr == Shr(Bits(red), 16 - v.red.length)
        cg == Shr(Bits(green), 16 - v.green.length)
        cb == Shr(Bits(blue), 16 - v.blue.length)
        rgb == BitOr(BitOr(Shl(cr, v.red.offset), Shl(cg, v.green.offset)),
                     Shl(cb, v.blue.offset))
        mask == Shl(Bits(Pow2(v.transp.length) - 1), v.transp.offset)
        value == IF v.transp.length > 0 THEN BitOr(rgb, mask) ELSE rgb
    IN  IF regno >= 16
        THEN [ret |-> -EINVAL, pal |-> pal]
        ELSE [ret |-> 0, pal |-> [pal EXCEPT ![regno] = value]]

\* the framebuffer core calls fb_setcolreg on a registered framebuffer
setcolreg ==
    /\ pc = "bound"
    /\ registered
    /\ palWrites < MaxPalWrites
    /\ \E regno \in Regnos, red \in Reds, green \in Greens, blue \in Blues,
          transp \in Transps :
          LET r == SetColreg(regno, red, green, blue, transp, var, pseudo_palette)
          IN  /\ pseudo_palette' = r.pal
              /\ lastPal' = <<[regno |-> regno, red |-> red, green |-> green,
                               blue |-> blue, transp |-> transp, ret |-> r.ret,
                               old |-> pseudo_palette]>>
    /\ palWrites' = palWrites + 1
    /\ UNCHANGED <<pc, retpc, ret, fbsize, probeRet, removeRet, setupRet, var, fix,
                   fb_phys, fb_virt, dma, dma_template, desc, mem, zeroed, chanHeld,
                   engine, registered, cmap, log, firstFail, calls>>

(***************************************************************************)
(* Specifications.                                                         *)
(***************************************************************************)
Next ==
    \/ probe_alloc_fbdev
    \/ probe_alloc_template
    \/ probe_init
    \/ probe_alloc_fb
    \/ probe_clear
    \/ probe_request
    \/ probe_setupfb
    \/ setupfb_terminate
    \/ setupfb_config
    \/ setupfb_template
    \/ setupfb_prep
    \/ setupfb_submit
    \/ setupfb_issue
    \/ probe_alloc_cmap
    \/ probe_register
    \/ probe_err_channel_free
    \/ probe_err_dma_free
    \/ remove_unregister
    \/ remove_release
    \/ remove_free
    \/ remove_dealloc_cmap
    \/ setcolreg

Spec == Init /\ [][Next]_vars

(***************************************************************************)
(* vdmafb_setupfb called repeatedly on an attached device: the state is    *)
(* the one probe has built when it reaches its call of vdmafb_setupfb      *)
(* (buffer allocated and cleared, channel acquired), and setupfb is called *)
(* again each time it has returned, with no stop in between.               *)
(***************************************************************************)
InitSetup ==
    /\ pc = "h_idle"
    /\ retpc = "none"
    /\ ret = 0
    /\ probeRet = <<>>
    /\ removeRet = <<>>
    /\ setupRet = <<>>
    /\ var = InitVar
    /\ \E r \in Regions :
          /\ fb_phys = r.phys
          /\ fb_virt = r.virt
          /\ fix = [InitFix(InitVar) EXCEPT !.smem_start = r.phys]
          /\ mem = {Region(PAGE_ALIGN(InitFix(InitVar).smem_len), r.virt, r.phys)}
    /\ fbsize = InitFix(InitVar).smem_len
    /\ zeroed = InitFix(InitVar).smem_len
    /\ dma = ChanHandle
    /\ dma_template = ZeroTemplate
    /\ pseudo_palette = ZeroPalette
    /\ desc = <<>>
    /\ chanHeld = TRUE
    /\ engine = EngineReset
    /\ registered = FALSE
    /\ cmap = FALSE
    /\ log = <<Call("alloc", Region(PAGE_ALIGN(InitFix(InitVar).smem_len), fb_virt, fb_phys)),
               Call("zero", InitFix(InitVar).smem_len),
               Call("request", ChanHandle)>>
    /\ firstFail = NoFail
    /\ calls = 0
    /\ palWrites = 0
    /\ lastPal = <<>>

\* the next call of vdmafb_setupfb
setupfb_call ==
    /\ pc = "h_idle"
    /\ calls < MaxCalls
    /\ pc' = "s_terminate"
    /\ retpc' = "h_idle"
    /\ calls' = calls + 1
    /\ UNCHANGED <<ret, fbsize, probeRet, removeRet, setupRet, var, fix, fb_phys,
                   fb_virt, dma, dma_template, pseudo_palette, desc, mem, zeroed,
                   chanHeld, engine, registered, cmap, log, firstFail, palWrites,
                   lastPal>>

NextSetup ==
    \/ setupfb_call
    \/ setupfb_terminate
    \/ setupfb_config
    \/ setupfb_template
    \/ setupfb_prep
    \/ setupfb_submit
    \/ setupfb_issue

SpecSetup == InitSetup /\ [][NextSetup]_vars

(***************************************************************************)
(* vdmafb_setcolreg as a function of its arguments: the state is the one a *)
(* successful probe leaves (registered, streaming), and setcolreg is       *)
(* called with any u_int intensities, wider than 16 bits included, which   *)
(* the parameter types admit.                                              *)
(***************************************************************************)
\* <<red, green, blue>> arguments: 16-bit values, and values of 17 and 31 bits
PalColours ==
    {<<0, 0, 0>>, <<65535, 0, 0>>, <<0, 4660, 0>>, <<0, 0, 33023>>,
     <<65535, 4660, 33023>>, <<131071, 0, 0>>, <<0, 131071, 0>>, <<0, 0, 131071>>,
     <<2147483647, 0, 0>>}

\* the descriptor the probe's call of vdmafb_setupfb has issued
ProbeDesc(phys) == [id |-> 1, template |-> BuildTemplate(InitVar, phys)]

InitPalette ==
    /\ pc = "bound"
    /\ retpc = "p_cmap"
    /\ ret = 0
    /\ probeRet = <<0>>
    /\ removeRet = <<>>
    /\ setupRet = <<0>>
    /\ var = InitVar
    /\ \E r \in Regions :
          /\ fb_phys = r.phys
          /\ fb_virt = r.virt
          /\ fix = [InitFix(InitVar) EXCEPT !.smem_start = r.phys]
          /\ mem = {Region(PAGE_ALIGN(InitFix(InitVar).smem_len), r.virt, r.phys)}
    /\ fbsize = InitFix(InitVar).smem_len
    /\ zeroed = InitFix(InitVar).smem_len
    /\ dma = ChanHandle
    /\ dma_template = BuildTemplate(InitVar, fb_phys)
    /\ pseudo_palette = ZeroPalette
    /\ desc = <<ProbeDesc(fb_phys)>>
    /\ chanHeld = TRUE
    /\ engine = [park |-> 1, pending |-> {}, active |-> {ProbeDesc(fb_phys)}]
    /\ registered = TRUE
    /\ cmap = TRUE
    /\ log = <<Call("alloc", Region(PAGE_ALIGN(InitFix(InitVar).smem_len), fb_virt, fb_phys)),
               Call("zero", InitFix(InitVar).smem_len),
               Call("request", ChanHandle),
               Call("terminate", ChanHandle),
               Call("config", 1),
               Call("template", 1),
               Call("prep", 1),
               Call("submit", 1),
               Call("issue", ChanHandle),
               Call("cmap_alloc", 0),
               Call("register", 0)>>
    /\ firstFail = NoFail
    /\ calls = 1
    /\ palWrites = 0
    /\ lastPal = <<>>

\* one call of vdmafb_setcolreg; again: the arguments are those of the call before
setcolreg_call ==
    /\ pc = "bound"
    /\ registered
    /\ palWrites < MaxPalWrites
    /\ \E regno \in Regnos, c \in PalColours, transp \in Transps :
          LET r == SetColreg(regno, c[1], c[2], c[3], transp, var, pseudo_palette)
          IN  /\ pseudo_palette' = r.pal
              /\ lastPal' = <<[regno |-> regno, red |-> c[1], green |-> c[2],
                               blue |-> c[3], transp |-> transp, ret |-> r.ret,
                               old |-> pseudo_palette,
                               again |-> /\ lastPal # <<>>
                                         /\ lastPal[1].regno = regno
                                         /\ lastPal[1].red = c[1]
                                         /\ lastPal[1].green = c[2]
                                         /\ lastPal[1].blue = c[3]
                                         /\ lastPal[1].transp = transp]>>
    /\ palWrites' = palWrites + 1
    /\ UNCHANGED <<pc, retpc, ret, fbsize, probeRet, removeRet, setupRet, var, fix,
                   fb_phys, fb_virt, dma, dma_template, desc, mem, zeroed, chanHeld,
                   engine, registered, cmap, log, firstFail, calls>>

NextPalette == setcolreg_call

SpecPalette == InitPalette /\ [][NextPalette]_vars

(***************************************************************************)
(* Properties.                                                             *)
(***************************************************************************)
\* vdmafb_probe has returned and vdmafb_remove has not been called since
ProbeReturned == pc \in {"idle", "bound"} /\ probeRet # <<>> /\ removeRet = <<>>

\* the calls of the log that acquire, and that give back, the buffer or the channel
IsAcquire(c) == c[1] = "alloc" \/ (c[1] = "request" /\ c[2] = ChanHandle)
IsGiveBack(c) == c[1] \in {"release", "free"}
Resource(c) == IF c[1] \in {"alloc", "free"} THEN "buf" ELSE "chan"
Kinds(s) == [i \in 1..Len(s) |-> Resource(s[i])]
Reverse(s) == [i \in 1..Len(s) |-> s[Len(s) + 1 - i]]
Count(op) == Cardinality({i \in DOMAIN log : log[i][1] = op})

\* the region the driver's fields name
OwnRegion == Region(PAGE_ALIGN(fix.smem_len), fb_virt, fb_phys)

\* C1: when attach has returned after a failure of buffer allocation, channel
\* acquisition, configure_and_start or registration, no buffer and no channel
\* is owned any more, and what was given back is exactly what had been
\* acquired, in reverse order of acquisition.
C1_FailedAttachReleasesAcquired ==
    (ProbeReturned /\ firstFail.step \in {"buf", "chan", "setup", "reg"}) =>
        /\ mem = {}
        /\ ~chanHeld
        /\ Kinds(SelectSeq(log, IsGiveBack)) = Reverse(Kinds(SelectSeq(log, IsAcquire)))

\* C2: when attach has returned, a failed step shows in the result: the result
\* is not success and is the error of the first failing step when that step
\* gave one; and success is returned only if no step failed.
C2_FirstFailureReturned ==
    ProbeReturned =>
        /\ firstFail.step # "none" =>
              /\ probeRet[1] # 0
              /\ firstFail.err # 0 => probeRet[1] = firstFail.err
        /\ probeRet[1] = 0 => firstFail.step = "none"

\* C3: the engine is never left working on a buffer that has been freed: every
\* descriptor pending or active on the channel reads from a region that is
\* still allocated, i.e. the channel was stopped before the buffer was freed.
C3_StoppedBeforeFree ==
    \A d \in engine.pending \cup engine.active :
        \E m \in mem : m.phys = d.template.src_start

\* C4: over an attach followed by detach the buffer is freed at most once, the
\* channel is released at most once and only a channel that was acquired, and
\* unregister is applied only to a registered framebuffer.
C4_DetachReleasesOnlyHeld ==
    /\ Count("free") <= 1
    /\ Count("release") <= 1
    /\ \A i \in DOMAIN log :
          /\ log[i][1] = "release" =>
                /\ log[i][2] = ChanHandle
                /\ \E j \in 1..(i - 1) : log[j] = Call("request", ChanHandle)
          /\ log[i][1] = "unregister" => log[i][2] = TRUE

\* C5: in every attach the whole buffer, stride x height bytes, has been
\* zero-filled after its allocation before a descriptor is prepared or
\* submitted and before the framebuffer is registered.
C5_ZeroedBeforeSubmitAndExpose ==
    /\ \A i \in DOMAIN log :
          log[i][1] \in {"prep", "submit", "issue", "register"} =>
              \E k \in 1..(i - 1) :
                  /\ log[k] = Call("zero", fix.line_length * var.yres)
                  /\ \E a \in 1..(k - 1) : log[a][1] = "alloc"
                  /\ \A a \in (k + 1)..(i - 1) : log[a][1] # "alloc"
    /\ (registered \/ pc \in {"s_submit", "s_issue"}) =>
          /\ zeroed = fix.line_length * var.yres
          /\ zeroed > 0

\* a state of C5: the buffer is exposed and streamed, and has been cleared
C5_Witness ==
    /\ registered
    /\ engine.active # {}
    /\ zeroed = 1536000

\* C6: every descriptor handed to the engine is made from a template with
\* direction memory-to-device, source address the buffer's physical address,
\* frame-size 1, frame-count the height, chunk size the line stride (width x 4),
\* gap 0, source increment on, destination increment off; for 800x480 at 32 bpp
\* that is frame-count 480, chunk size 3200 and a buffer of 1,536,000 bytes.
C6_DescriptorTemplate ==
    (pc \in {"s_submit", "s_issue"}) =>
        /\ desc # <<>>
        /\ (pc = "s_issue") => desc[1] \in engine.pending
        /\ LET t == desc[1].template
           IN  /\ t.dir = "DMA_MEM_TO_DEV"
               /\ t.src_start = fb_phys
               /\ fb_phys # 0
               /\ t.frame_size = 1
               /\ t.numf = var.yres
               /\ t.sgl_size = fix.line_length
               /\ t.sgl_size = var.xres * 4
               /\ t.sgl_icg = 0
               /\ t.src_inc = 1
               /\ t.dst_inc = 0
               /\ (var.xres = 800 /\ var.yres = 480 /\ var.bits_per_pixel = 32) =>
                     /\ t.numf = 480
                     /\ t.sgl_size = 3200
                     /\ fix.smem_len = 1536000
                     /\ OwnRegion \in mem

\* a state of C6: a descriptor for the 800x480 buffer is queued on the channel
C6_Witness ==
    /\ pc = "s_issue"
    /\ engine.pending # {}
    /\ var.xres = 800
    /\ var.yres = 480

\* the last call into a facility
LastCall == IF log = <<>> THEN Call("none", 0) ELSE log[Len(log)]

\* C7: when descriptor preparation has failed, vdmafb_setupfb has returned an
\* error, nothing is pending or active on the channel (an earlier transfer was
\* terminated) and the channel is still owned: it is Bound-Idle, from where
\* vdmafb_setupfb may be called again.
C7_PrepFailureLeavesIdle ==
    (LastCall = Call("prep", 0)) =>
        /\ pc \in {retpc, "s_terminate"}
        /\ setupRet # <<>>
        /\ setupRet[1] < 0
        /\ desc = <<>>
        /\ engine.pending = {}
        /\ engine.active = {}
        /\ chanHeld
        /\ dma = ChanHandle

\* a state of C7: preparation failed in a call that followed a call that had
\* started streaming
C7_Witness ==
    /\ LastCall = Call("prep", 0)
    /\ calls >= 2
    /\ Count("issue") >= 1

\* C8: at most one descriptor is on the channel at any point, and when a call
\* of vdmafb_setupfb has returned success the channel streams that call's
\* descriptor alone, in parked mode.
C8_OnlyLastDescriptorActive ==
    /\ Cardinality(engine.pending \cup engine.active) <= 1
    /\ (pc = "h_idle" /\ setupRet = <<0>>) =>
          /\ engine.active = {[id |-> calls, template |-> BuildTemplate(var, fb_phys)]}
          /\ engine.pending = {}
          /\ engine.park = 1
          /\ chanHeld

\* a state of C8: a second successful call has returned, after a first one
\* that had started streaming
C8_Witness ==
    /\ pc = "h_idle"
    /\ setupRet = <<0>>
    /\ calls >= 2
    /\ Count("issue") >= 2
    /\ engine.active # {}

\* C9: a palette write with index >= 16 returns -EINVAL and leaves the palette
\* as it was; a write with index 0..15 returns 0.
C9_PaletteRange ==
    (lastPal # <<>>) =>
        LET c == lastPal[1]
        IN  /\ c.regno >= 16 => (c.ret = -EINVAL /\ pseudo_palette = c.old)
            /\ c.regno <= 15 => c.ret = 0

\* a state of C9: index 16 was rejected on a palette that already held an entry
C9_Witness ==
    /\ lastPal # <<>>
    /\ lastPal[1].regno = 16
    /\ lastPal[1].ret = -EINVAL
    /\ pseudo_palette # ZeroPalette

\* C10: after a write with a valid index and 16-bit intensities the entry is
\* ((red >> 8) << 16) | ((green >> 8) << 8) | (blue >> 8) | 0xFF000000: its
\* four 8-bit fields hold 0xFF, red / 256, green / 256 and blue / 256, whatever
\* the transparency argument; (0xFFFF, 0, 0, 0xFFFF) gives 0xFFFF0000.
C10_PackedValue ==
    (lastPal # <<>> /\ lastPal[1].regno <= 15) =>
        LET c == lastPal[1]
            e == pseudo_palette[c.regno]
        IN  (c.red < 65536 /\ c.green < 65536 /\ c.blue < 65536 /\ c.transp < 65536) =>
               /\ FieldFrom(e, 24, 31) = 255
               /\ FieldFrom(e, 16, 23) = c.red \div 256
               /\ FieldFrom(e, 8, 15) = c.green \div 256
               /\ FieldFrom(e, 0, 7) = c.blue \div 256
               /\ e \subseteq 0..31
               /\ (c.red = 65535 /\ c.green = 0 /\ c.blue = 0) => e = 16..31

\* a state of C10: entry 5 written with (0xFFFF, 0, 0, 0xFFFF) holds 0xFFFF0000
C10_Witness ==
    /\ lastPal # <<>>
    /\ lastPal[1].regno = 5
    /\ lastPal[1].red = 65535
    /\ lastPal[1].green = 0
    /\ lastPal[1].blue = 0
    /\ lastPal[1].transp = 65535
    /\ pseudo_palette[5] = 16..31

\* C11: every palette write with index 0..15 returns 0, whatever the
\* intensities, and a write repeated with the same arguments leaves the
\* palette as the first one left it.
C11_PackTotalIdempotent ==
    (lastPal # <<>> /\ lastPal[1].regno <= 15) =>
        /\ lastPal[1].ret = 0
        /\ lastPal[1].again => pseudo_palette = lastPal[1].old

\* a state of C11: entry 5 was written twice with (0xFFFF, 0, 0, 0xFFFF)
C11_Witness ==
    /\ lastPal # <<>>
    /\ lastPal[1].again
    /\ lastPal[1].regno = 5
    /\ lastPal[1].red = 65535
    /\ lastPal[1].ret = 0
    /\ palWrites >= 2
    /\ pseudo_palette[5] = 16..31

\* the names of the calls of a sequence of calls
Ops(s) == [i \in 1..Len(s) |-> s[i][1]]
IsTeardown(c) == c[1] \in {"unregister", "terminate", "release", "free"}

\* the calls vdmafb_remove has made: the log from its unregister call on
RemoveCalls ==
    IF Count("unregister") = 0 THEN <<>>
    ELSE SubSeq(log, CHOOSE i \in DOMAIN log : log[i][1] = "unregister", Len(log))

\* a transfer issued before call i of the log has not been terminated before it
StreamingAt(i) ==
    \E j \in 1..(i - 1) :
        /\ log[j][1] = "issue"
        /\ \A k \in (j + 1)..(i - 1) : log[k][1] # "terminate"

\* C12: when detach of a device whose attach had no failing step has returned,
\* it has unregistered, then stopped the channel, then released it, then freed
\* the buffer, in that order; and detach releases the channel only when no
\* transfer is streaming on it.
C12_DetachOrder ==
    /\ (removeRet = <<0>> /\ firstFail = NoFail) =>
          Ops(SelectSeq(RemoveCalls, IsTeardown)) =
              <<"unregister", "terminate", "release", "free">>
    /\ \A i \in DOMAIN log :
          (log[i][1] = "release" /\ \E u \in 1..(i - 1) : log[u][1] = "unregister") =>
              ~StreamingAt(i)

\* C13: whenever the framebuffer is registered, the channel is owned and a
\* descriptor reading the current buffer is active on it (Bound-Streaming).
C13_RegisteredIsStreaming ==
    registered =>
        /\ chanHeld
        /\ dma = ChanHandle
        /\ \E d \in engine.active : d.template.src_start = fb_phys
        /\ OwnRegion \in mem

\* C14: the template is written only while nothing is in flight: at the write
\* and until the next preparation the channel has nothing pending or active,
\* each write follows a terminate with no transfer issued in between, and the
\* call after the write is the preparation of the next descriptor.
C14_TemplateWrittenWhileIdle ==
    /\ (pc \in {"s_template", "s_prep"}) =>
          /\ engine.pending = {}
          /\ engine.active = {}
    /\ \A i \in DOMAIN log :
          (log[i][1] = "template") =>
              /\ ~StreamingAt(i)
              /\ \E t \in 1..(i - 1) :
                    /\ log[t][1] = "terminate"
                    /\ \A k \in (t + 1)..(i - 1) : log[k][1] \notin {"prep", "submit", "issue"}
              /\ (i < Len(log)) => log[i + 1][1] = "prep"

\* a state of C14: the template has been rewritten by a call that followed a
\* call that had started streaming
C14_Witness ==
    /\ pc = "s_prep"
    /\ calls >= 2
    /\ Count("issue") >= 1
    /\ LastCall = Call("template", calls)
    /\ dma_template = BuildTemplate(var, fb_phys)

\* the four 8-bit fields of a packed value each hold their own channel's
\* intensity, shifted down by 8 and cut to 8 bits, and the transparency field
\* is the full mask
OwnFieldsOnly(e, c) ==
    /\ FieldFrom(e, 24, 31) = 255
    /\ FieldFrom(e, 16, 23) = (c.red \div 256) % 256
    /\ FieldFrom(e, 8, 15) = (c.green \div 256) % 256
    /\ FieldFrom(e, 0, 7) = (c.blue \div 256) % 256

\* C15 as claimed: after every palette write with a valid index, intensities
\* wider than 16 bits included, each channel has contributed only to the bits of
\* its own 8-bit field.
C15_ChannelsIsolated ==
    (lastPal # <<>> /\ lastPal[1].regno <= 15) =>
        OwnFieldsOnly(pseudo_palette[lastPal[1].regno], lastPal[1])

\* C15 as amended: the same for every write whose green and blue arguments fit
\* in 16 bits, red being of any width.
C15_ChannelsIsolated16 ==
    (lastPal # <<>> /\ lastPal[1].regno <= 15
        /\ lastPal[1].green < 65536 /\ lastPal[1].blue < 65536) =>
        OwnFieldsOnly(pseudo_palette[lastPal[1].regno], lastPal[1])

\* a state of C15: a 17-bit red was written and reached the red field only
C15_Witness ==
    /\ lastPal # <<>>
    /\ lastPal[1].regno = 15
    /\ lastPal[1].red = 131071
    /\ lastPal[1].green = 0
    /\ lastPal[1].blue = 0
    /\ pseudo_palette[15] = 16..31

\* C16: a palette write, accepted or rejected, changes no palette entry other
\* than the one addressed, and leaves the geometry, the buffer, the descriptor
\* template, the channel and the engine as they were.
C16_PaletteWriteIsLocal ==
    [][(palWrites' = palWrites + 1) =>
          /\ UNCHANGED <<var, fix, fb_phys, fb_virt, mem, zeroed, dma, dma_template,
                         chanHeld, engine, registered, cmap>>
          /\ DOMAIN pseudo_palette' = DOMAIN pseudo_palette
          /\ \A i \in DOMAIN pseudo_palette :
                (i # lastPal'[1].regno) => pseudo_palette'[i] = pseudo_palette[i]
          /\ (lastPal'[1].ret # 0) => pseudo_palette' = pseudo_palette]_vars

\* a state of C16: on a streaming channel entry 5 was written after entry 0,
\* which is still in place
C16_Witness ==
    /\ lastPal # <<>>
    /\ lastPal[1].regno = 5
    /\ lastPal[1].ret = 0
    /\ pseudo_palette[5] # {}
    /\ pseudo_palette[0] # {}
    /\ lastPal[1].old[0] = pseudo_palette[0]
    /\ engine.active # {}
    /\ registered

\* width x bytes-per-pixel x height of the geometry, rounded up to a page
RoundedSize == PAGE_ALIGN(var.xres * (var.bits_per_pixel \div 8) * var.yres)

\* C17: the buffer is allocated with the size width x bytes-per-pixel x height
\* rounded up to the page size, and every free of the buffer, in detach and on
\* the failure paths of attach, passes that size and the virtual/physical
\* address pair the allocation returned.
C17_FreeMatchesAlloc ==
    \A i \in DOMAIN log :
        /\ (log[i][1] = "alloc") =>
              /\ log[i][2].size = RoundedSize
              /\ log[i][2].size = XRES * (BPP \div 8) * YRES
              /\ [virt |-> log[i][2].virt, phys |-> log[i][2].phys] \in Regions
        /\ (log[i][1] = "free") =>
              /\ log[i][2].size = RoundedSize
              /\ \E j \in 1..(i - 1) : log[j] = Call("alloc", log[i][2])

\* a state of C17: a successful attach was detached, and detach freed the region
\* the allocation had returned
C17_Witness ==
    /\ removeRet = <<0>>
    /\ firstFail = NoFail
    /\ pc = "idle"
    /\ Count("alloc") = 1
    /\ Count("free") = 1
    /\ \E i \in DOMAIN log : log[i] = Call("free", OwnRegion)

\* C18: the colour map allocated by attach is released exactly once: before
\* attach returns when registration failed after it was allocated, else by
\* detach, and never before the framebuffer is unregistered.
C18_CmapReleasedOnce ==
    /\ (ProbeReturned /\ probeRet # <<0>> /\ firstFail.step = "reg") => ~cmap
    /\ (removeRet = <<0>> /\ pc = "idle") => ~cmap
    /\ \A i \in DOMAIN log :
          (log[i][1] = "cmap_free") => \E u \in 1..(i - 1) : log[u][1] = "unregister"
    /\ Cardinality({i \in DOMAIN log : log[i] = Call("cmap_free", TRUE)})
          <= Cardinality({i \in DOMAIN log : log[i] = Call("cmap_alloc", 0)})

\* C19: the framebuffer is registered only when the colour map was allocated:
\* after a failed colour-map allocation attach makes no registration call and
\* does not return 0.
C19_RegisterOnlyWithCmap ==
    (firstFail = NoFail) =>
        /\ registered => cmap
        /\ \A i \in DOMAIN log :
              (log[i] = Call("cmap_alloc", -ENOMEM)) =>
                  /\ \A j \in (i + 1)..Len(log) : log[j][1] # "register"
                  /\ ProbeReturned => probeRet # <<0>>

====
